---- MODULE Spec2Model ----
\* Lifecycle scheduler of packages/runtime/src/lifecycle.ts: the intrusive
\* phase queues (BoundQueue, AttachedQueue, MountQueue; UnboundQueue,
\* DetachedQueue and UnmountQueue are line-for-line copies of them with other
\* field names) and the BatchQueue.  Callbacks run as frames on a call stack so
\* that they can re-enter the queues while a process() walk is in progress.
EXTENDS Integers, Sequences, FiniteSets, TLC

\* ------------------------------------------------------------------ bounds
MaxDepth == 2
MaxStack == 6
MaxBatch == 3
MaxUnderflow == 1
\* registrations held by one queue (re-adds of linked or lost controllers)
MaxAdds == 3
\* registrations held by each of several queues at once
MultiAdds == 2

\* ------------------------------------------------------------------ domain
Items == {"a", "b", "c"}
None == "none"
PhaseQueues == {"Bind", "Attach", "Mount"}
AutoPhaseQueues == {"Bind", "Attach"}
\* LifecycleFlags as a set of bit names; OR is union
FlagNone == {}
FromBatch == {"fromBatch"}
CallerFlags == {{}, {"updateTarget"}}
\* the flags argument of end/inline left out (a value no flag set takes)
NoArg == {"undefined"}
\* end(flags?): if (flags === void 0) flags = LifecycleFlags.none
EndArg(fl) == IF fl = NoArg THEN FlagNone ELSE fl

VARIABLES
  head,      \* head[q]: the queue's head
  tail,      \* tail[q]: the queue's tail
  nxt,       \* nxt[q][i]: item i's next link field for phase q (nextBound, ...)
  prv,       \* prv[q][i]: item i's prev link field for phase q (prevBound, ...)
  depth,     \* depth[q] for Bind, Attach, Batch
  bq,        \* BatchQueue.queue
  stack,     \* call stack: process walks, callbacks and inline closures
  expected,  \* ghost: per phase queue, the registrations still owed a callback, in append order
  during,    \* ghost: items added to q while a process of q was running
  expB,      \* ghost: batch registrations still owed a flushBatch, in append order
  ev,        \* ghost: the last event
  addedIn    \* ghost: addedIn[q][i]: the context of the latest add of i to q

vars == <<head, tail, nxt, prv, depth, bq, stack, expected, during, expB, ev, addedIn>>

\* ------------------------------------------------------------------ frames
Frame(k, q, x, pc, fl, b, i) ==
  [kind |-> k, q |-> q, x |-> x, pc |-> pc, fl |-> fl, b |-> b, i |-> i]
ProcFrame(q, fl) == Frame("proc", q, None, "loop", fl, <<>>, 0)
\* AttachedQueue.end after its first call returns: this.process(flags) comes next
ThenFrame(q, fl) == Frame("then", q, None, "loop", fl, <<>>, 0)
CbFrame(q, x, fl) == Frame("cb", q, x, "body", fl, <<>>, 0)
FnFrame(q, fl) == Frame("fn", q, None, "body", fl, <<>>, 0)
\* variant of the batch frame below without the fromBatch marker
BProcFrameNoMarker(fl) == Frame("bproc", "Batch", None, "loop", fl, <<>>, 0)
BProcFrame(fl) == Frame("bproc", "Batch", None, "loop", fl \cup FromBatch, <<>>, 0)
BcbFrame(x, fl) == Frame("bcb", "Batch", x, "body", fl, <<>>, 0)

Ev(k, q, x, fl) == [kind |-> k, q |-> q, x |-> x, fl |-> fl]

Top == stack[Len(stack)]
Pop(s) == SubSeq(s, 1, Len(s) - 1)
SetTop(f) == [stack EXCEPT ![Len(stack)] = f]
\* the code that is running: the external caller, a callback of queue q, or an inline closure
Ctx == IF stack = <<>> THEN "top"
       ELSE IF Top.kind = "fn" THEN "fn"
       ELSE IF Top.kind \in {"cb", "bcb"} THEN Top.q
       ELSE "busy"
Room == Len(stack) <= MaxStack - 2
Running(s, q) == \E i \in 1..Len(s) : s[i].kind \in {"proc", "bproc"} /\ s[i].q = q
NumProc(s, q) == Cardinality({i \in 1..Len(s) : s[i].kind \in {"proc", "bproc"} /\ s[i].q = q})

RECURSIVE DropFirst(_, _)
DropFirst(s, x) == IF s = <<>> THEN <<>>
                   ELSE IF Head(s) = x THEN Tail(s)
                   ELSE <<Head(s)>> \o DropFirst(Tail(s), x)
Range(s) == {s[i] : i \in 1..Len(s)}

\* the forward walk from h along the link function nx (at most k items)
RECURSIVE WalkFrom(_, _, _)
WalkFrom(h, nx, k) == IF h = None \/ k = 0 THEN <<>>
                      ELSE <<h>> \o WalkFrom(nx[h], nx, k - 1)
RECURSIVE BackFrom(_, _, _)
BackFrom(t, pv, k) == IF t = None \/ k = 0 THEN <<>>
                      ELSE <<t>> \o BackFrom(pv[t], pv, k - 1)

Init ==
  /\ head = [q \in PhaseQueues |-> None]
  /\ tail = [q \in PhaseQueues |-> None]
  /\ nxt = [q \in PhaseQueues |-> [i \in Items |-> None]]
  /\ prv = [q \in PhaseQueues |-> [i \in Items |-> None]]
  /\ depth = [q \in AutoPhaseQueues \cup {"Batch"} |-> 0]
  /\ bq = <<>>
  /\ stack = <<>>
  /\ expected = [q \in PhaseQueues |-> <<>>]
  /\ during = [q \in PhaseQueues \cup {"Batch"} |-> {}]
  /\ expB = <<>>
  /\ ev = Ev("init", None, None, FlagNone)
  /\ addedIn = [q \in PhaseQueues |-> [i \in Items |-> None]]

\* ------------------------------------------------------------------ phase queue operations

\* the unvisited snapshot items of every walk of q on the stack
Abandoned(q) ==
  UNION {IF stack[i].pc = "call" THEN Range(WalkFrom(stack[i].x, nxt[q], 4))
         ELSE IF stack[i].pc = "after" THEN Range(WalkFrom(nxt[q][stack[i].x], nxt[q], 4))
         ELSE {} :
           i \in {j \in 1..Len(stack) : stack[j].kind = "proc" /\ stack[j].q = q}}

\* x is in no unvisited part of a walk of q, is not reachable from q's head,
\* is not q's tail, and no walk of q is at x; its link fields may be stale
Unlinked(q, x) ==
  /\ x \notin Abandoned(q)
  /\ x \notin Range(WalkFrom(head[q], nxt[q], 4))
  /\ head[q] # x /\ tail[q] # x
  /\ ~\E i \in 1..Len(stack) : stack[i].kind = "proc" /\ stack[i].q = q /\ stack[i].x = x

\* variant of add below that starts a mount drain when it adds to an empty Mount queue
AddEager(q, x, C) ==
  /\ Ctx \in C
  /\ Unlinked(q, x)
  /\ head[q] = None
  /\ head' = [head EXCEPT ![q] = x]
  /\ tail' = [tail EXCEPT ![q] = x]
  /\ stack' = IF q = "Mount" THEN Append(stack, ProcFrame(q, FlagNone)) ELSE stack
  /\ expected' = [expected EXCEPT ![q] = Append(@, x)]
  /\ ev' = Ev("add", q, x, FlagNone)
  /\ during' = IF Running(stack, q) THEN [during EXCEPT ![q] = @ \cup {x}] ELSE during
  /\ addedIn' = [addedIn EXCEPT ![q][x] = Ctx]
  /\ UNCHANGED <<nxt, prv, depth, bq, expB>>

\* the body of BoundQueue.add (and its copies): appends controller x
AddLink(q, x) ==
  /\ IF head[q] = None
       THEN /\ head' = [head EXCEPT ![q] = x]
            /\ tail' = [tail EXCEPT ![q] = x]
            /\ UNCHANGED <<nxt, prv, stack>>
            /\ expected' = [expected EXCEPT ![q] = Append(@, x)]
            /\ addedIn' = [addedIn EXCEPT ![q][x] = Ctx]
            /\ ev' = Ev("add", q, x, FlagNone)
       ELSE IF tail[q] = None
       \* controller.prevBound = this.tail; this.tail!.nextBound: TypeError on undefined
       THEN /\ prv' = [prv EXCEPT ![q][x] = None]
            /\ stack' = <<>>
            /\ UNCHANGED <<addedIn, head, tail, nxt, expected>>
            /\ ev' = Ev("throw", q, x, FlagNone)
       ELSE /\ prv' = [prv EXCEPT ![q][x] = tail[q]]
            /\ nxt' = [nxt EXCEPT ![q][tail[q]] = x]
            /\ tail' = [tail EXCEPT ![q] = x]
            /\ UNCHANGED <<head, stack>>
            /\ expected' = [expected EXCEPT ![q] = Append(@, x)]
            /\ addedIn' = [addedIn EXCEPT ![q][x] = Ctx]
            /\ ev' = Ev("add", q, x, FlagNone)
  /\ during' = IF Running(stack, q) THEN [during EXCEPT ![q] = @ \cup {x}] ELSE during
  /\ UNCHANGED <<depth, bq, expB>>

\* add called on a controller not linked in q
Add(q, x, C) ==
  /\ Ctx \in C
  /\ Unlinked(q, x)
  /\ AddLink(q, x)

\* add called on any controller, linked in q or not
AddAny(q, x, C) ==
  /\ Ctx \in C
  /\ AddLink(q, x)


\* variant of remove below that clears x's link fields of every phase
RemoveAllPhases(q, x, C) ==
  /\ Ctx \in C
  /\ LET p == prv[q][x]
         n == nxt[q][x]
         nxt1 == IF p # None THEN [nxt EXCEPT ![q][p] = n] ELSE nxt
         prv1 == IF n # None THEN [prv EXCEPT ![q][n] = p] ELSE prv
     IN /\ nxt' = [r \in DOMAIN nxt1 |-> [nxt1[r] EXCEPT ![x] = None]]
        /\ prv' = [r \in DOMAIN prv1 |-> [prv1[r] EXCEPT ![x] = None]]
        /\ tail' = IF tail[q] = x THEN [tail EXCEPT ![q] = prv'[q][x]] ELSE tail
        /\ head' = IF head[q] = x THEN [head EXCEPT ![q] = nxt'[q][x]] ELSE head
  /\ expected' = [expected EXCEPT ![q] = DropFirst(@, x)]
  /\ ev' = Ev("remove", q, x, FlagNone)
  /\ UNCHANGED <<addedIn, depth, bq, stack, during, expB>>

\* BoundQueue.remove (and its copies)
Remove(q, x, C) ==
  /\ Ctx \in C
  /\ LET p == prv[q][x]
         n == nxt[q][x]
         nxt1 == IF p # None THEN [nxt EXCEPT ![q][p] = n] ELSE nxt
         prv1 == IF n # None THEN [prv EXCEPT ![q][n] = p] ELSE prv
     IN /\ nxt' = [nxt1 EXCEPT ![q][x] = None]
        /\ prv' = [prv1 EXCEPT ![q][x] = None]
        \* the endpoint updates read the link fields after they were cleared
        /\ tail' = IF tail[q] = x THEN [tail EXCEPT ![q] = prv'[q][x]] ELSE tail
        /\ head' = IF head[q] = x THEN [head EXCEPT ![q] = nxt'[q][x]] ELSE head
  /\ expected' = [expected EXCEPT ![q] = DropFirst(@, x)]
  /\ ev' = Ev("remove", q, x, FlagNone)
  /\ UNCHANGED <<addedIn, depth, bq, stack, during, expB>>

\* pushing a process frame for q onto the stack s; resets the ghost of an outermost process
StartProc(q, fl, s) ==
  IF q = "Batch" THEN Append(s, BProcFrame(fl)) ELSE Append(s, ProcFrame(q, fl))
ResetDuring(q, s) == IF Running(s, q) THEN during ELSE [during EXCEPT ![q] = {}]

\* variants of end below: Attach drained before Mount; a drain on every end
EndOnSwapped(q, fl, s) ==
  /\ depth' = [depth EXCEPT ![q] = @ - 1]
  /\ IF depth[q] - 1 = 0
       THEN IF q = "Attach"
              THEN /\ stack' = Append(Append(s, ThenFrame("Mount", fl)), ProcFrame("Attach", fl))
                   /\ during' = ResetDuring("Attach", s)
              ELSE /\ stack' = StartProc(q, fl, s)
                   /\ during' = ResetDuring(q, s)
       ELSE /\ stack' = s
            /\ UNCHANGED during
EndOnEvery(q, fl, s) ==
  /\ depth' = [depth EXCEPT ![q] = @ - 1]
  /\ stack' = StartProc(q, fl, s)
  /\ during' = ResetDuring(q, s)

\* BoundQueue.end / AttachedQueue.end / BatchQueue.end after the stack s, with flags fl
EndOn(q, fl, s) ==
  /\ depth' = [depth EXCEPT ![q] = @ - 1]
  /\ IF depth[q] - 1 = 0
       THEN IF q = "Attach"
              \* this.lifecycle.mount.process(flags); this.process(flags)
              THEN /\ stack' = Append(Append(s, ThenFrame("Attach", fl)), ProcFrame("Mount", fl))
                   /\ during' = ResetDuring("Mount", s)
              ELSE /\ stack' = StartProc(q, fl, s)
                   /\ during' = ResetDuring(q, s)
       ELSE /\ stack' = s
            /\ UNCHANGED during

Begin(q, C) ==
  /\ Ctx \in C
  /\ depth[q] < MaxDepth
  /\ depth' = [depth EXCEPT ![q] = @ + 1]
  /\ ev' = Ev("begin", q, None, FlagNone)
  /\ UNCHANGED <<addedIn, head, tail, nxt, prv, bq, stack, expected, during, expB>>

End(q, fl, C) ==
  /\ Ctx \in C
  /\ Room
  /\ depth[q] - 1 >= -MaxUnderflow
  /\ EndOn(q, EndArg(fl), stack)
  /\ ev' = Ev("end", q, None, fl)
  /\ UNCHANGED <<addedIn, head, tail, nxt, prv, bq, expected, expB>>

\* inline(fn, flags): begin(); fn(); end(flags) -- fn runs as a frame
Inline(q, fl, C) ==
  /\ Ctx \in C
  /\ Room
  /\ depth[q] < MaxDepth
  /\ depth' = [depth EXCEPT ![q] = @ + 1]
  /\ stack' = Append(stack, FnFrame(q, fl))
  /\ ev' = Ev("begin", q, None, fl)
  /\ UNCHANGED <<addedIn, head, tail, nxt, prv, bq, expected, during, expB>>

\* fn returned normally: the end(flags) of inline runs while inline is still on the stack
FnRet ==
  /\ stack # <<>>
  /\ Top.kind = "fn"
  /\ EndOn(Top.q, EndArg(Top.fl), SetTop([Top EXCEPT !.kind = "inl"]))
  /\ ev' = Ev("end", Top.q, None, Top.fl)
  /\ UNCHANGED <<addedIn, head, tail, nxt, prv, bq, expected, expB>>

\* inline returns once its end has returned
InlRet ==
  /\ stack # <<>>
  /\ Top.kind = "inl"
  /\ stack' = Pop(stack)
  /\ ev' = Ev("inlret", Top.q, None, Top.fl)
  /\ UNCHANGED <<addedIn, head, tail, nxt, prv, depth, bq, expected, during, expB>>

\* the end waiting below a finished first drain makes its second call, this.process(flags)
EndThen ==
  /\ stack # <<>>
  /\ Top.kind = "then"
  /\ stack' = SetTop(ProcFrame(Top.q, Top.fl))
  /\ during' = ResetDuring(Top.q, Pop(stack))
  /\ ev' = Ev("process", Top.q, None, Top.fl)
  /\ UNCHANGED <<addedIn, head, tail, nxt, prv, depth, bq, expected, expB>>

\* a direct process(flags) call
Process(q, fl, C) ==
  /\ Ctx \in C
  /\ Room
  /\ stack' = StartProc(q, fl, stack)
  /\ during' = ResetDuring(q, stack)
  /\ ev' = Ev("process", q, None, fl)
  /\ UNCHANGED <<addedIn, head, tail, nxt, prv, depth, bq, expected, expB>>

\* a callback returns normally
CbRet ==
  /\ stack # <<>>
  /\ Top.kind \in {"cb", "bcb"}
  /\ stack' = Pop(stack)
  /\ ev' = Ev("cbret", Top.q, Top.x, Top.fl)
  /\ UNCHANGED <<addedIn, head, tail, nxt, prv, depth, bq, expected, during, expB>>

\* caller-supplied code (a callback or an inline closure) throws; no frame catches;
\* the unvisited items of the aborted walks are no longer queued
Throw ==
  /\ stack # <<>>
  /\ Top.kind \in {"cb", "bcb", "fn"}
  /\ stack' = <<>>
  /\ expected' = [q \in DOMAIN expected |-> SelectSeq(expected[q], LAMBDA y : y \notin Abandoned(q))]
  /\ ev' = Ev("throw", Top.q, Top.x, Top.fl)
  /\ UNCHANGED <<addedIn, head, tail, nxt, prv, depth, bq, during, expB>>

\* ------------------------------------------------------------------ process walk
\* variant of the step below that leaves the live head/tail in place
ProcLoopNoReset ==
  /\ stack # <<>>
  /\ Top.kind = "proc" /\ Top.pc = "loop"
  /\ LET q == Top.q IN
       IF head[q] = None
         THEN /\ stack' = Pop(stack)
              /\ ev' = Ev("return", q, None, Top.fl)
         ELSE /\ stack' = SetTop([Top EXCEPT !.x = head[q], !.pc = "call"])
              /\ ev' = Ev("snapshot", q, head[q], Top.fl)
  /\ UNCHANGED <<addedIn, head, tail, nxt, prv, depth, bq, expected, during, expB>>

\* while (this.head !== void 0) { cur = this.head; this.head = this.tail = void 0; do {...} while (cur) }
ProcLoop ==
  /\ stack # <<>>
  /\ Top.kind = "proc" /\ Top.pc = "loop"
  /\ LET q == Top.q IN
       IF head[q] = None
         THEN /\ stack' = Pop(stack)
              /\ ev' = Ev("return", q, None, Top.fl)
              /\ UNCHANGED <<addedIn, head, tail>>
         ELSE /\ stack' = SetTop([Top EXCEPT !.x = head[q], !.pc = "call"])
              /\ head' = [head EXCEPT ![q] = None]
              /\ tail' = [tail EXCEPT ![q] = None]
              /\ ev' = Ev("snapshot", q, head[q], Top.fl)
  /\ UNCHANGED <<addedIn, nxt, prv, depth, bq, expected, during, expB>>

\* cur.afterBind(flags)
ProcCall ==
  /\ stack # <<>>
  /\ Top.kind = "proc" /\ Top.pc = "call"
  /\ stack' = Append(SetTop([Top EXCEPT !.pc = "after"]), CbFrame(Top.q, Top.x, Top.fl))
  /\ expected' = [expected EXCEPT ![Top.q] = DropFirst(@, Top.x)]
  /\ ev' = Ev("invoke", Top.q, Top.x, Top.fl)
  /\ UNCHANGED <<addedIn, head, tail, nxt, prv, depth, bq, during, expB>>

\* next = cur.nextBound; cur.nextBound = void 0; cur.prevBound = void 0; cur = next
ProcAfter ==
  /\ stack # <<>>
  /\ Top.kind = "proc" /\ Top.pc = "after"
  /\ LET q == Top.q
         c == Top.x
         n == nxt[q][c]
     IN /\ nxt' = [nxt EXCEPT ![q][c] = None]
        /\ prv' = [prv EXCEPT ![q][c] = None]
        /\ stack' = SetTop([Top EXCEPT !.x = n, !.pc = IF n = None THEN "loop" ELSE "call"])
  /\ ev' = Ev("step", Top.q, Top.x, Top.fl)
  /\ UNCHANGED <<addedIn, head, tail, depth, bq, expected, during, expB>>

\* ------------------------------------------------------------------ batch queue
\* BatchQueue.add: this.queue.push(requestor)
BAdd(x, C) ==
  /\ Ctx \in C
  /\ Len(bq) < MaxBatch
  /\ bq' = Append(bq, x)
  /\ expB' = Append(expB, x)
  /\ during' = IF Running(stack, "Batch") THEN [during EXCEPT !["Batch"] = @ \cup {x}] ELSE during
  /\ ev' = Ev("add", "Batch", x, FlagNone)
  /\ UNCHANGED <<addedIn, head, tail, nxt, prv, depth, stack, expected>>

\* first index of x in s, 0 when absent (Array.prototype.indexOf gives -1)
IndexOf(s, x) == IF \E i \in 1..Len(s) : s[i] = x
                 THEN CHOOSE i \in 1..Len(s) : s[i] = x /\ \A j \in 1..(i - 1) : s[j] # x
                 ELSE 0
RemoveAt(s, i) == SubSeq(s, 1, i - 1) \o SubSeq(s, i + 1, Len(s))

\* variant of remove below that drops every occurrence
BRemoveAll(x, C) ==
  /\ Ctx \in C
  /\ bq' = SelectSeq(bq, LAMBDA y : y # x)
  /\ expB' = DropFirst(expB, x)
  /\ ev' = Ev("remove", "Batch", x, FlagNone)
  /\ UNCHANGED <<addedIn, head, tail, nxt, prv, depth, stack, expected, during>>

\* BatchQueue.remove: splice out the first occurrence
BRemove(x, C) ==
  /\ Ctx \in C
  /\ bq' = IF IndexOf(bq, x) > 0 THEN RemoveAt(bq, IndexOf(bq, x)) ELSE bq
  /\ expB' = DropFirst(expB, x)
  /\ ev' = Ev("remove", "Batch", x, FlagNone)
  /\ UNCHANGED <<addedIn, head, tail, nxt, prv, depth, stack, expected, during>>

\* single-round variant of the loop below
BLoopOnce ==
  /\ stack # <<>>
  /\ Top.kind = "bproc" /\ Top.pc = "loop"
  /\ IF Len(bq) > 0 /\ Top.i = 0
       THEN /\ stack' = SetTop([Top EXCEPT !.b = bq, !.i = 1, !.pc = "call"])
            /\ bq' = <<>>
            /\ ev' = Ev("snapshot", "Batch", None, Top.fl)
       ELSE /\ stack' = Pop(stack)
            /\ ev' = Ev("return", "Batch", None, Top.fl)
            /\ UNCHANGED bq
  /\ UNCHANGED <<addedIn, head, tail, nxt, prv, depth, expected, during, expB>>

\* while (this.queue.length > 0) { const batch = this.queue.slice(); this.queue = []; ... }
BLoop ==
  /\ stack # <<>>
  /\ Top.kind = "bproc" /\ Top.pc = "loop"
  /\ IF Len(bq) > 0
       THEN /\ stack' = SetTop([Top EXCEPT !.b = bq, !.i = 1, !.pc = "call"])
            /\ bq' = <<>>
            /\ ev' = Ev("snapshot", "Batch", None, Top.fl)
       ELSE /\ stack' = Pop(stack)
            /\ ev' = Ev("return", "Batch", None, Top.fl)
            /\ UNCHANGED bq
  /\ UNCHANGED <<addedIn, head, tail, nxt, prv, depth, expected, during, expB>>

\* for (let i = 0; i < length; ++i) { batch[i].flushBatch(flags); }
BCall ==
  /\ stack # <<>>
  /\ Top.kind = "bproc" /\ Top.pc = "call"
  /\ IF Top.i > Len(Top.b)
       THEN /\ stack' = SetTop([Top EXCEPT !.pc = "loop"])
            /\ ev' = Ev("step", "Batch", None, Top.fl)
            /\ UNCHANGED expB
       ELSE /\ stack' = Append(SetTop([Top EXCEPT !.i = @ + 1]), BcbFrame(Top.b[Top.i], Top.fl))
            /\ expB' = DropFirst(expB, Top.b[Top.i])
            /\ ev' = Ev("flush", "Batch", Top.b[Top.i], Top.fl)
  /\ UNCHANGED <<addedIn, head, tail, nxt, prv, depth, bq, expected, during>>

\* ------------------------------------------------------------------ specifications
\* SpecSeq: adds, then a process (direct or through inline); callbacks do nothing
NextSeq ==
  \/ \E q \in {"Bind", "Mount"}, x \in Items : Add(q, x, {"top"})
  \/ \E fl \in CallerFlags : Inline("Bind", fl, {"top"})
  \/ \E fl \in CallerFlags : Process("Mount", fl, {"top"})
  \/ FnRet
  \/ InlRet
  \/ CbRet
  \/ ProcLoop
  \/ ProcCall
  \/ ProcAfter
SpecSeq == Init /\ [][NextSeq]_vars

\* C1: after adds of distinct unlinked items, one process invokes each added
\* item's callback exactly once, in append order, and no other item.
C1AppendOrder ==
  [][ /\ ev'.kind = "invoke" => (expected[ev'.q] # <<>> /\ ev'.x = Head(expected[ev'.q]))
      /\ ev'.kind = "return" => expected'[ev'.q] = <<>> ]_vars
C1Witness == ev.kind = "invoke" /\ prv[ev.q][ev.x] # None /\ nxt[ev.q][ev.x] = None

\* SpecRemove: adds and removes by the caller, then processes; callbacks do nothing
NextRemove ==
  \/ \E q \in {"Bind", "Mount"}, x \in Items : Len(expected[q]) < MaxAdds /\ Add(q, x, {"top"})
  \/ \E q \in {"Bind", "Mount"}, x \in Items : Remove(q, x, {"top"})
  \/ \E fl \in CallerFlags : Inline("Bind", fl, {"top"})
  \/ \E fl \in CallerFlags : Process("Mount", fl, {"top"})
  \/ FnRet
  \/ InlRet
  \/ CbRet
  \/ ProcLoop
  \/ ProcCall
  \/ ProcAfter
SpecRemove == Init /\ [][NextRemove]_vars

\* C2: after adds and removes, process invokes exactly the items not removed,
\* once each, in append order; never a removed item, never skipping a kept one.
C2RemoveThenProcess ==
  [][ /\ ev'.kind = "invoke" => (Range(expected[ev'.q]) # {} /\ ev'.x = Head(expected[ev'.q]))
      /\ ev'.kind = "return" => Range(expected[ev'.q]) = {} ]_vars

Reverse(w) == [i \in 1..Len(w) |-> w[Len(w) + 1 - i]]
ListShape(q) ==
  LET w == WalkFrom(head[q], nxt[q], 4)
  IN /\ (head[q] = None) <=> (tail[q] = None)
     /\ Len(w) <= 3
     /\ Cardinality(Range(w)) = Len(w)
     /\ w # <<>> => w[Len(w)] = tail[q]
     /\ BackFrom(tail[q], prv[q], 4) = Reverse(w)

\* C4: head is undefined iff tail is; the forward walk reaches tail and ends,
\* the backward walk from tail reaches head, and no item repeats.
C4ListInvariant == \A q \in {"Bind", "Mount"} : ListShape(q)

\* C5: remove(x) of a linked x stitches its neighbours, moves head/tail to
\* x's former next/prev, clears x's links and keeps the others' order.
C5RemoveStitches ==
  [][ (ev'.kind = "remove" /\ ev'.x \in Range(WalkFrom(head[ev'.q], nxt[ev'.q], 4))) =>
        LET q == ev'.q
            x == ev'.x
        IN /\ head'[q] = (IF head[q] = x THEN nxt[q][x] ELSE head[q])
           /\ tail'[q] = (IF tail[q] = x THEN prv[q][x] ELSE tail[q])
           /\ nxt'[q][x] = None /\ prv'[q][x] = None
           /\ WalkFrom(head'[q], nxt'[q], 4) = SelectSeq(WalkFrom(head[q], nxt[q], 4), LAMBDA y : y # x)
  ]_vars

\* SpecReentrant: callbacks add to the queues and run Bind scopes while a drain is in progress
NextReentrant ==
  \/ \E x \in Items : Add("Bind", x, {"top", "fn", "Bind"})
  \/ Inline("Bind", FlagNone, {"top", "Bind"})
  \/ FnRet
  \/ InlRet
  \/ CbRet
  \/ ProcLoop
  \/ ProcCall
  \/ ProcAfter
SpecReentrant == Init /\ [][NextReentrant]_vars

\* C3 (as stated): an item added by a callback while process runs is not
\* invoked during that process call.
C3NotInSamePass == [][ ev'.kind = "invoke" => ev'.x \notin during[ev'.q] ]_vars

ChainItems == {"a", "b"}

\* SpecChainFull: Attach scopes chained to Mount; mount callbacks may run an Attach scope
NextChainFull ==
  \/ \E q \in {"Attach", "Mount"}, x \in ChainItems : Add(q, x, {"top", "Mount"})
  \/ \E x \in ChainItems : Add("Mount", x, {"Attach"})
  \/ Begin("Attach", {"top"})
  \/ \E fl \in CallerFlags : End("Attach", fl, {"top"})
  \/ Inline("Attach", FlagNone, {"Mount"})
  \/ EndThen
  \/ FnRet
  \/ InlRet
  \/ CbRet
  \/ ProcLoop
  \/ ProcCall
  \/ ProcAfter
SpecChainFull == Init /\ [][NextChainFull]_vars

ChainedSameFlags ==
  \A i \in 1..(Len(stack) - 1) :
    (/\ stack[i].kind = "then" /\ stack[i].q = "Attach"
     /\ stack[i + 1].kind = "proc" /\ stack[i + 1].q = "Mount")
      => stack[i + 1].fl = stack[i].fl

\* C6 (as stated): no afterAttach callback runs while a Mount drain is in
\* progress, and the chained Mount drain gets the Attach end's flags.
C6MountDrainFirst ==
  /\ (ev.kind = "invoke" /\ ev.q = "Attach") => ~Running(stack, "Mount")
  /\ ChainedSameFlags

\* C6 (amended): the chained Mount drain gets the Attach end's flags; the
\* Attach drain of an end starts only once the Mount queue is empty; and an
\* afterAttach callback runs during a Mount drain only inside an Attach scope
\* that a mount callback of that drain opened itself.
C6ChainOrder ==
  /\ ChainedSameFlags
  /\ (/\ stack # <<>> /\ Top.kind = "proc" /\ Top.q = "Attach" /\ Top.pc = "loop"
      /\ ev.kind \in {"end", "process"})
       => head["Mount"] = None
  /\ (ev.kind = "invoke" /\ ev.q = "Attach") =>
       \A i \in 1..Len(stack) :
         (stack[i].kind = "proc" /\ stack[i].q = "Mount") =>
           \E j \in (i + 1)..Len(stack) : stack[j].kind = "inl" /\ stack[j].q = "Attach"
C6Witness ==
  /\ ev.kind = "invoke" /\ ev.q = "Mount" /\ Len(stack) >= 3
  /\ stack[Len(stack) - 2].kind = "then" /\ stack[Len(stack) - 2].q = "Attach"
  /\ head["Attach"] # None

\* SpecAuto: nested begin/end and inline scopes on Bind and Batch
NextAuto ==
  \/ \E x \in Items : Add("Bind", x, {"top", "fn"})
  \/ \E x \in Items : BAdd(x, {"top", "fn"})
  \/ \E q \in {"Bind", "Batch"} : Begin(q, {"top"})
  \/ \E q \in {"Bind", "Batch"}, fl \in CallerFlags : End(q, fl, {"top"})
  \/ \E q \in {"Bind", "Batch"}, fl \in CallerFlags : Inline(q, fl, {"top"})
  \/ FnRet
  \/ InlRet
  \/ CbRet
  \/ ProcLoop
  \/ ProcCall
  \/ ProcAfter
  \/ BLoop
  \/ BCall
SpecAuto == Init /\ [][NextAuto]_vars

\* C7: a process of an auto queue starts exactly when an end brings its depth to 0.
C7OuterEndDrains ==
  [][ \A q \in {"Bind", "Batch"} :
        (NumProc(stack', q) > NumProc(stack, q)) <=> (ev'.kind = "end" /\ ev'.q = q /\ depth'[q] = 0) ]_vars
C7Witness ==
  /\ ev.kind = "end" /\ ev.q = "Bind" /\ depth["Bind"] = 1 /\ head["Bind"] # None

\* SpecInline: the caller uses inline scopes only; the closure may fail
NextInline ==
  \/ \E x \in Items : Add("Bind", x, {"top", "fn"})
  \/ \E fl \in CallerFlags : Inline("Bind", fl, {"top"})
  \/ FnRet
  \/ InlRet
  \/ CbRet
  \/ Throw
  \/ ProcLoop
  \/ ProcCall
  \/ ProcAfter
SpecInline == Init /\ [][NextInline]_vars

\* C8: once inline returns or fails, depth is back to its value before it (0).
C8DepthRestored == stack = <<>> => depth["Bind"] = 0

\* SpecBatch: flushBatch callbacks add to the batch queue during the flush
NextBatch ==
  \/ \E x \in Items : BAdd(x, {"top", "fn", "Batch"})
  \/ \E fl \in CallerFlags : Inline("Batch", fl, {"top"})
  \/ \E fl \in CallerFlags : Process("Batch", fl, {"top"})
  \/ FnRet
  \/ InlRet
  \/ CbRet
  \/ BLoop
  \/ BCall
SpecBatch == Init /\ [][NextBatch]_vars

NextLive ==
  \/ \E x \in Items : Add("Bind", x, {"top", "Bind"})
  \/ \E fl \in CallerFlags : Inline("Bind", fl, {"top"})
  \/ FnRet
  \/ InlRet
  \/ CbRet
  \/ ProcLoop
  \/ ProcCall
  \/ ProcAfter
Fairness == WF_vars(FnRet) /\ WF_vars(InlRet) /\ WF_vars(CbRet) /\ WF_vars(ProcLoop) /\ WF_vars(ProcCall) /\ WF_vars(ProcAfter)
SpecLive == Init /\ [][NextLive]_vars /\ Fairness

\* C10 (as stated): every process call returns, whatever the callbacks add.
C10AlwaysReturns == Running(stack, "Bind") ~> (stack = <<>>)

\* the part of a walk's snapshot chain not yet visited by process frame f
SnapRest(f) ==
  IF f.pc = "call" THEN WalkFrom(f.x, nxt[f.q], 4)
  ELSE IF f.pc = "after" THEN WalkFrom(nxt[f.q][f.x], nxt[f.q], 4)
  ELSE <<>>
LiveList(q) == Range(WalkFrom(head[q], nxt[q], 4))

\* SpecFail: callbacks and closures may fail while a Bind drain is in progress
NextFail ==
  \/ \E x \in Items : Len(expected["Bind"]) < MaxAdds /\ Add("Bind", x, {"top", "fn", "Bind"})
  \/ Inline("Bind", FlagNone, {"top"})
  \/ FnRet
  \/ InlRet
  \/ CbRet
  \/ Throw
  \/ ProcLoop
  \/ ProcCall
  \/ ProcAfter
SpecFail == Init /\ [][NextFail]_vars

\* C11: a failing callback propagates out of process/end to the caller (the
\* whole call stack unwinds), and no unvisited item of any aborted snapshot is
\* in that queue's live list afterwards.
C11FailureAborts ==
  [][ ev'.kind = "throw" =>
        /\ stack' = <<>>
        /\ \A i \in 1..Len(stack) :
             stack[i].kind = "proc" =>
               Range(SnapRest(stack[i])) \cap Range(WalkFrom(head'[stack[i].q], nxt'[stack[i].q], 4)) = {} ]_vars

\* SpecRemoveDuring: a Bind callback may add, or remove another pending item
NextRemoveDuring ==
  \/ \E x \in Items : Len(expected["Bind"]) < MaxAdds /\ Add("Bind", x, {"top", "fn", "Bind"})
  \/ \E x \in Items : Ctx = "Bind" /\ x # Top.x /\ x \in Range(expected["Bind"])
                      /\ Remove("Bind", x, {"Bind"})
  \/ Inline("Bind", FlagNone, {"top"})
  \/ FnRet
  \/ InlRet
  \/ CbRet
  \/ ProcLoop
  \/ ProcCall
  \/ ProcAfter
SpecRemoveDuring == Init /\ [][NextRemoveDuring]_vars

\* C12: when a callback removes a different pending item during a drain, the
\* removed item is never invoked and every other pending item (snapshot or live
\* list) is invoked exactly once, in registration order.
C12RemoveDuringDrain ==
  [][ /\ ev'.kind = "invoke" => (expected[ev'.q] # <<>> /\ ev'.x = Head(expected[ev'.q]))
      /\ (ev'.kind = "return" /\ ~Running(stack', ev'.q)) => expected'[ev'.q] = <<>> ]_vars

\* C13: the depth counter of every auto queue is never negative.
C13DepthNonNegative == \A q \in DOMAIN depth : depth[q] >= 0

FlagArgs == CallerFlags \cup {NoArg}
FlagItems == {"a"}

\* SpecFlags: every way flags enter a drain, with and without the flags argument
NextFlags ==
  \/ \E q \in {"Bind", "Attach", "Mount"}, x \in FlagItems : Add(q, x, {"top"})
  \/ \E x \in ChainItems : BAdd(x, {"top"})
  \/ Begin("Attach", {"top"})
  \/ \E fl \in FlagArgs : End("Attach", fl, {"top"})
  \/ EndThen
  \/ \E q \in {"Bind", "Batch"}, fl \in FlagArgs : Inline(q, fl, {"top"})
  \/ \E q \in {"Mount", "Batch"}, fl \in CallerFlags : Process(q, fl, {"top"})
  \/ FnRet
  \/ InlRet
  \/ CbRet
  \/ ProcLoop
  \/ ProcCall
  \/ ProcAfter
  \/ BLoop
  \/ BCall
SpecFlags == Init /\ [][NextFlags]_vars

\* C14: a drain started by end(flags)/process(flags) runs with exactly those
\* flags (none when end is called without flags), OR-ed with fromBatch for the
\* batch queue only; a drain keeps its flags; every callback (phase callback or
\* flushBatch) gets the flags of the drain that invokes it.
C14FlagsThreaded ==
  [][ /\ ev'.kind \in {"end", "process"} =>
           \A i \in (Len(stack) + 1)..Len(stack') :
             stack'[i].fl = IF stack'[i].kind = "bproc" THEN EndArg(ev'.fl) \cup FromBatch
                                                       ELSE EndArg(ev'.fl)
      /\ \A i \in 1..Len(stack) :
           (/\ i <= Len(stack')
            /\ \/ stack[i].kind \in {"proc", "bproc"} /\ stack'[i].kind = stack[i].kind
               \/ stack[i].kind = "then" /\ stack'[i].kind = "proc")
             => stack'[i].fl = stack[i].fl
      /\ ev'.kind \in {"invoke", "flush"} =>
           ev'.fl = Top.fl /\ stack'[Len(stack')].fl = Top.fl ]_vars
C14Witness ==
  /\ stack # <<>> /\ Top.kind = "cb" /\ Top.q = "Bind" /\ Top.fl = FlagNone
  /\ ev.kind = "invoke"
  /\ \E i \in 1..Len(stack) : stack[i].kind = "inl" /\ stack[i].fl = NoArg

\* SpecBatchEdit: batch adds (also from flushBatch), removes outside a flush
NextBatchEdit ==
  \/ \E x \in Items : BAdd(x, {"top", "fn", "Batch"})
  \/ \E x \in Items : BRemove(x, {"top", "fn"})
  \/ \E fl \in CallerFlags : Inline("Batch", fl, {"top"})
  \/ \E fl \in CallerFlags : Process("Batch", fl, {"top"})
  \/ FnRet
  \/ InlRet
  \/ CbRet
  \/ BLoop
  \/ BCall
SpecBatchEdit == Init /\ [][NextBatchEdit]_vars

\* C15: add appends even a queued item; remove drops only the first occurrence
\* (nothing if absent) keeping the others in order; each add not undone by a
\* remove gets its own flushBatch call, in order, before process returns.
C15BatchMultiset ==
  [][ /\ (ev'.kind = "add" /\ ev'.q = "Batch") => bq' = Append(bq, ev'.x)
      /\ (ev'.kind = "remove" /\ ev'.q = "Batch") => bq' = DropFirst(bq, ev'.x)
      /\ ev'.kind = "flush" => (expB # <<>> /\ ev'.x = Head(expB))
      /\ (ev'.kind = "return" /\ ev'.q = "Batch" /\ ~Running(stack', "Batch")) => expB' = <<>> ]_vars
C15Witness ==
  /\ ev.kind = "remove" /\ ev.q = "Batch" /\ ev.x \in Range(bq)

\* SpecMount: the Mount queue fed by adds (also from mount callbacks), drained
\* directly or by the Attach scope
NextMount ==
  \/ \E q \in {"Attach", "Mount"}, x \in ChainItems : Add(q, x, {"top"})
  \/ \E x \in ChainItems : Add("Mount", x, {"Mount"})
  \/ Begin("Attach", {"top"})
  \/ \E fl \in CallerFlags : End("Attach", fl, {"top"})
  \/ \E fl \in CallerFlags : Process("Mount", fl, {"top"})
  \/ EndThen
  \/ CbRet
  \/ ProcLoop
  \/ ProcCall
  \/ ProcAfter
SpecMount == Init /\ [][NextMount]_vars

\* C16: Mount has no begin/end; mount callbacks run only inside a Mount drain,
\* which starts only from Mount.process or an Attach end reaching depth 0; add
\* never starts or advances a drain; process on an empty Mount queue invokes
\* nothing and returns leaving every field as it was.
C16MountExplicit ==
  [][ /\ (ev'.kind = "invoke" /\ ev'.q = "Mount") => (Top.kind = "proc" /\ Top.q = "Mount")
      /\ ev'.kind = "add" => stack' = stack
      /\ NumProc(stack', "Mount") > NumProc(stack, "Mount") =>
           \/ ev'.kind = "process" /\ ev'.q = "Mount"
           \/ ev'.kind = "end" /\ ev'.q = "Attach" /\ depth'["Attach"] = 0
      /\ (ev.kind = "process" /\ ev.q = "Mount" /\ head["Mount"] = None) =>
           /\ ev'.kind = "return"
           /\ stack' = Pop(stack)
           /\ UNCHANGED <<addedIn, head, tail, nxt, prv, depth, bq, expected>> ]_vars
C16Witness ==
  /\ stack # <<>> /\ Top.kind = "cb" /\ Top.q = "Mount"
  /\ \E i \in 1..Len(stack) : stack[i].kind = "then" /\ stack[i].q = "Attach"
  /\ ev.kind = "invoke"

\* SpecMulti: the same items linked into Attach and Mount at once
NextMulti ==
  \/ \E q \in {"Attach", "Mount"}, x \in ChainItems : Len(expected[q]) < MultiAdds /\ Add(q, x, {"top"})
  \/ \E q \in {"Attach", "Mount"}, x \in ChainItems : Remove(q, x, {"top"})
  \/ Begin("Attach", {"top"})
  \/ End("Attach", FlagNone, {"top"})
  \/ EndThen
  \/ Process("Mount", FlagNone, {"top"})
  \/ CbRet
  \/ ProcLoop
  \/ ProcCall
  \/ ProcAfter
SpecMulti == Init /\ [][NextMulti]_vars

OtherPhasesKept(q) ==
  \A r \in PhaseQueues \ {q} :
    head'[r] = head[r] /\ tail'[r] = tail[r] /\ nxt'[r] = nxt[r] /\ prv'[r] = prv[r]

\* C17: add, remove and every process step on queue q change only q's
\* head/tail and q's link fields, never a depth; begin/end change only their own
\* depth and no list; a drain of another queue starts only as Mount from an
\* Attach end.
C17PhaseFrame ==
  [][ /\ ev'.kind \in {"add", "remove", "snapshot", "invoke", "step", "return", "throw"} =>
           OtherPhasesKept(ev'.q) /\ depth' = depth
      /\ ev'.kind \in {"begin", "end"} =>
           /\ UNCHANGED <<addedIn, head, tail, nxt, prv>>
           /\ \A r \in DOMAIN depth \ {ev'.q} : depth'[r] = depth[r]
      /\ \A r \in PhaseQueues \ {ev'.q} :
           NumProc(stack', r) > NumProc(stack, r) => (ev'.kind = "end" /\ ev'.q = "Attach" /\ r = "Mount") ]_vars
C17Witness ==
  /\ ev.kind = "remove"
  /\ \E r \in PhaseQueues \ {ev.q} : ev.x \in LiveList(r)

\* SpecDoubleAdd: add may be called on a controller already linked in Bind
NextDoubleAdd ==
  \/ \E x \in Items : Len(expected["Bind"]) < MaxAdds /\ AddAny("Bind", x, {"top"})
  \/ Inline("Bind", FlagNone, {"top"})
  \/ FnRet
  \/ InlRet
  \/ CbRet
  \/ ProcLoop
  \/ ProcCall
  \/ ProcAfter
SpecDoubleAdd == Init /\ [][NextDoubleAdd]_vars

\* C18: no item appears twice in a phase queue's forward walk and the walk
\* has no cycle, even when add is called on an already-linked item.
C18NoDoubleLink ==
  \A q \in PhaseQueues :
    LET w == WalkFrom(head[q], nxt[q], 4)
    IN Len(w) <= 3 /\ Cardinality(Range(w)) = Len(w)

\* x is neither in q's live list, nor q's tail, nor in the unvisited part of a running walk of q
Detached(q, x) ==
  /\ x \notin LiveList(q)
  /\ tail[q] # x
  /\ \A i \in 1..Len(stack) :
       stack[i].kind = "proc" /\ stack[i].q = q =>
         x \notin Range(SnapRest(stack[i])) /\ x # stack[i].x

\* SpecDangling: failing callbacks leave controllers with stale links, which
\* callers may add again or remove while they are not in the list
NextDangling ==
  \/ \E x \in Items : Len(expected["Bind"]) < MaxAdds /\ Detached("Bind", x) /\ AddAny("Bind", x, {"top"})
  \/ \E x \in Items : Detached("Bind", x) /\ Remove("Bind", x, {"top"})
  \/ Inline("Bind", FlagNone, {"top"})
  \/ FnRet
  \/ InlRet
  \/ CbRet
  \/ Throw
  \/ ProcLoop
  \/ ProcCall
  \/ ProcAfter
SpecDangling == Init /\ [][NextDangling]_vars

\* C19: remove(x) for an x not linked in q leaves q's head, tail and the link
\* fields of every item in q's list unchanged, and x's link fields undefined.
C19RemoveUnlinkedNoop ==
  [][ (ev'.kind = "remove" /\ Detached(ev'.q, ev'.x)) =>
        /\ head'[ev'.q] = head[ev'.q] /\ tail'[ev'.q] = tail[ev'.q]
        /\ \A y \in LiveList(ev'.q) :
             nxt'[ev'.q][y] = nxt[ev'.q][y] /\ prv'[ev'.q][y] = prv[ev'.q][y]
        /\ nxt'[ev'.q][ev'.x] = None /\ prv'[ev'.q][ev'.x] = None ]_vars

\* C20: when a process of q returns normally, q's head and tail are undefined
\* and every item invoked by it (pending nowhere, not the current item of an
\* enclosing walk) has q's link fields undefined.
C20ReturnLeavesEmpty ==
  [][ (ev'.kind = "return" /\ ev'.q \in PhaseQueues) =>
        /\ head'[ev'.q] = None /\ tail'[ev'.q] = None
        /\ \A x \in Items :
             (/\ x \notin Range(expected'[ev'.q])
              /\ ~\E i \in 1..Len(stack') : stack'[i].kind = "proc" /\ stack'[i].q = ev'.q /\ stack'[i].x = x)
               => nxt'[ev'.q][x] = None /\ prv'[ev'.q][x] = None ]_vars

\* the unvisited snapshot items of the walks of q suspended below the top frame
Enclosing(q) ==
  UNION {Range(SnapRest(stack[i])) :
           i \in {j \in 1..(Len(stack) - 1) : stack[j].kind = "proc" /\ stack[j].q = q}}

\* C21 (as stated): every invocation of a phase queue is of the earliest
\* pending registration, whatever the interleaving.
C21GlobalAppendOrder ==
  [][ ev'.kind = "invoke" => IndexOf(expected[ev'.q], ev'.x) = 1 ]_vars

\* C21 (amended): every invocation is of the earliest pending registration
\* other than the unvisited items of walks suspended by a nested drain (a
\* callback's inline or begin/end on the draining queue drains the re-entrant
\* additions first, ahead of those items).
C21AppendOrderPerDrain ==
  [][ ev'.kind = "invoke" =>
        LET P == SelectSeq(expected[ev'.q], LAMBDA y : y \notin Enclosing(ev'.q))
        IN P # <<>> /\ ev'.x = Head(P) ]_vars
C21Witness ==
  /\ ev.kind = "invoke"
  /\ \E i \in 1..(Len(stack) - 2) :
       stack[i].kind = "proc" /\ stack[i].q = ev.q /\ SnapRest(stack[i]) # <<>>

\* SpecStale: failing callbacks leave controllers with stale links, which
\* callers may add again; no removes
NextStale ==
  \/ \E x \in Items : Len(expected["Bind"]) < MaxAdds /\ Detached("Bind", x) /\ AddAny("Bind", x, {"top"})
  \/ Inline("Bind", FlagNone, {"top"})
  \/ FnRet
  \/ InlRet
  \/ CbRet
  \/ Throw
  \/ ProcLoop
  \/ ProcCall
  \/ ProcAfter
SpecStale == Init /\ [][NextStale]_vars

\* C22: even after a walk aborted by a failing callback, an item is invoked
\* only while it has a registration (an add since its last invocation) left.
C22NoStaleInvocation ==
  [][ ev'.kind = "invoke" => ev'.x \in Range(expected[ev'.q]) ]_vars

\* SpecSelfRemove: a Bind callback may remove its own controller
NextSelfRemove ==
  \/ \E x \in Items : Len(expected["Bind"]) < MaxAdds /\ Add("Bind", x, {"top"})
  \/ Ctx = "Bind" /\ Remove("Bind", Top.x, {"Bind"})
  \/ Inline("Bind", FlagNone, {"top"})
  \/ FnRet
  \/ InlRet
  \/ CbRet
  \/ ProcLoop
  \/ ProcCall
  \/ ProcAfter
SpecSelfRemove == Init /\ [][NextSelfRemove]_vars

\* C23: when a callback removes its own item, the rest of the snapshot is
\* still invoked: the outermost drain returns with nothing left pending.
C23SelfRemoveDrains ==
  [][ (ev'.kind = "return" /\ ev'.q \in PhaseQueues /\ ~Running(stack', ev'.q)) =>
        expected'[ev'.q] = <<>> ]_vars

\* C24 (as stated): when an Attach end that reached depth 0 returns, the Mount
\* queue is empty.
C24MountEmptyAfterEnd ==
  [][ (ev'.kind = "return" /\ ev'.q = "Attach") => head'["Mount"] = None ]_vars

\* C24 (amended): when an Attach end's this.process(flags) starts, the Mount
\* drain has left Mount empty; when that Attach process returns, every
\* controller in Mount was last added to it by an afterAttach callback.
C24MountOnlyFromAttach ==
  [][ /\ (ev'.kind = "process" /\ ev'.q = "Attach") => head'["Mount"] = None
      /\ (ev'.kind = "return" /\ ev'.q = "Attach") =>
           \A x \in Range(WalkFrom(head'["Mount"], nxt'["Mount"], 4)) : addedIn'["Mount"][x] = "Attach" ]_vars
C24Witness ==
  /\ ev.kind = "return" /\ ev.q = "Attach" /\ stack = <<>>
  /\ head["Mount"] # None
====
